---- MODULE Spec2Model ----
(***************************************************************************)
(* A model of the Bluesky post analyzer (src/src/bluesky_analyzer.py):     *)
(* the session (authenticate), the cursor-paginated fetch loop             *)
(* (fetch_posts) against a listing server, the normalizer (parse_posts)    *)
(* and the aggregator (analyze_posts).                                     *)
(*                                                                         *)
(* Optional Python values are sequences of length at most one: None is     *)
(* <<>> and a value v is <<v>>, so that truthiness and equality are        *)
(* well-typed.                                                             *)
(***************************************************************************)
EXTENDS Integers, Sequences, FiniteSets, TLC

\* ------------------------------------------------------------------ bounds
\* The largest number of records the listing server holds.
MaxRecords == 5
\* The largest page the server returns for one request (the program asks
\* for batch_size = 100 records per page; the model scales it down).
MaxPage == 2
\* The largest cap (limit) a caller passes to fetch_posts.
MaxLimit == 3
\* The largest batch of raw records handed to parse_posts.
MaxBatch == 3
\* The largest number of records the server holds in a run of main.
MaxStore == 3

\* ------------------------------------------------------- values and helpers
None == <<>>
Some(v) == <<v>>
\* Python truthiness of an optional integer or optional token.
Truthy(o) == o # None /\ o[1] # 0

\* The session responses the server may give: each carries its own tokens.
Sessions == {"s1", "s2"}

\* The records the server holds are numbered 1..n in serving order.
Range(a, b) == [i \in 1..(b - a + 1) |-> a + i - 1]

\* The concatenation of a sequence of sequences.
RECURSIVE Concat(_)
Concat(pages) ==
  IF pages = <<>> THEN <<>> ELSE Head(pages) \o Concat(Tail(pages))

\* ----------------------------------------------------- raw records (input)
\* A Python str is a sequence of one-character strings.
IsSpace(ch) == ch = " "

\* The createdAt strings: an ISO-8601 text "y-mo-dTh:00:00" followed by "Z"
\* (z = TRUE) or "+00:00" (z = FALSE), or a text that is no timestamp.
IsoText(y, mo, d, h, z) ==
  [kind |-> "iso", y |-> y, mo |-> mo, d |-> d, h |-> h, z |-> z]
JunkText == [kind |-> "junk", y |-> 0, mo |-> 0, d |-> 0, h |-> 0, z |-> FALSE]
EmptyText == [kind |-> "empty", y |-> 0, mo |-> 0, d |-> 0, h |-> 0, z |-> FALSE]

\* A facet feature: its $type tag and the did / tag / uri keys it carries.
Feature(type, v) == [type |-> type, did |-> <<"did", v>>, tag |-> <<"tag", v>>,
                     uri |-> <<"uri", v>>]
MentionType == "app.bsky.richtext.facet#mention"
TagType == "app.bsky.richtext.facet#tag"
LinkType == "app.bsky.richtext.facet#link"
ImagesType == "app.bsky.embed.images"
ExternalType == "app.bsky.embed.external"

\* The `value` sub-document of a raw record: kind "absent" when the record
\* has no `value` key, "scalar" when `value` is not a mapping (a string, a
\* list, null), "doc" when it is a mapping. Optional keys are None when
\* the mapping lacks them.
Doc(createdAt, text, facets, embed, reply) ==
  [kind |-> "doc", createdAt |-> createdAt, text |-> text, facets |-> facets,
   embed |-> embed, reply |-> reply]
AbsentValue ==
  [kind |-> "absent", createdAt |-> None, text |-> None, facets |-> None,
   embed |-> None, reply |-> None]
ScalarValue ==
  [kind |-> "scalar", createdAt |-> None, text |-> None, facets |-> None,
   embed |-> None, reply |-> None]

\* ------------------------------------------------------------- parse_posts
\* str.replace("Z", "+00:00") on a createdAt text.
ReplaceZ(str) == IF str.kind = "iso" THEN [str EXCEPT !.z = FALSE] ELSE str

\* Days of each month of the year 2024, the year of the modelled timestamps.
DaysInMonth(mo) ==
  CASE mo = 2 -> 29
    [] mo \in {4, 6, 9, 11} -> 30
    [] OTHER -> 31

\* datetime.fromisoformat: None stands for the ValueError it raises on a text
\* that is no ISO timestamp, that keeps a "Z" suffix, or whose month or day
\* is out of range.
FromIsoFormat(str) ==
  IF /\ str.kind = "iso"
     /\ ~str.z
     /\ str.mo \in 1..12
     /\ str.d \in 1..DaysInMonth(str.mo)
     /\ str.h \in 0..23
    THEN Some([y |-> str.y, mo |-> str.mo, d |-> str.d, h |-> str.h])
    ELSE None

\* datetime.weekday() (Monday = 0) for a timestamp of 2024, whose 1 January
\* is a Monday.
RECURSIVE DaysBefore(_)
DaysBefore(mo) == IF mo <= 1 THEN 0 ELSE DaysBefore(mo - 1) + DaysInMonth(mo - 1)
Weekday(ts) == (DaysBefore(ts.mo) + ts.d - 1) % 7
DateOf(ts) == <<ts.y, ts.mo, ts.d>>

\* dict.get(key, default) on an optional key.
Get(o, default) == IF o = None THEN default ELSE o[1]

\* str.split(): the maximal runs of non-whitespace characters.
RECURSIVE SplitAcc(_, _, _)
SplitAcc(text, cur, acc) ==
  IF text = <<>>
    THEN IF cur = <<>> THEN acc ELSE Append(acc, cur)
    ELSE IF IsSpace(Head(text))
      THEN SplitAcc(Tail(text), <<>>, IF cur = <<>> THEN acc ELSE Append(acc, cur))
      ELSE SplitAcc(Tail(text), Append(cur, Head(text)), acc)
Split(text) == SplitAcc(text, <<>>, <<>>)

\* A mutation of WordCount: the text is split on single spaces, so that
\* blank text counts words.
WordCountSingleSpace(text) ==
  IF text # <<>> THEN Cardinality({i \in 1..Len(text) : IsSpace(text[i])}) + 1 ELSE 0

\* len(text.split()) if text else 0
WordCount(text) == IF text # <<>> THEN Len(Split(text)) ELSE 0

\* A mutation of AddFeature: a link is filed under the hashtags.
AddFeatureLinkAsTag(lists, feature) ==
  IF feature.type = MentionType
    THEN [lists EXCEPT !.mentions = Append(@, feature.did)]
    ELSE IF feature.type = TagType
      THEN [lists EXCEPT !.hashtags = Append(@, feature.tag)]
      ELSE IF feature.type = LinkType
        THEN [lists EXCEPT !.hashtags = Append(@, feature.uri)]
        ELSE lists

\* The if / elif chain on a feature's $type: append to one of the lists.
AddFeature(lists, feature) ==
  IF feature.type = MentionType
    THEN [lists EXCEPT !.mentions = Append(@, feature.did)]
    ELSE IF feature.type = TagType
      THEN [lists EXCEPT !.hashtags = Append(@, feature.tag)]
      ELSE IF feature.type = LinkType
        THEN [lists EXCEPT !.links = Append(@, feature.uri)]
        ELSE lists

\* The two nested loops over facets and their features.
RECURSIVE WalkFeatures(_, _)
WalkFeatures(lists, features) ==
  IF features = <<>> THEN lists
  ELSE WalkFeatures(AddFeature(lists, Head(features)), Tail(features))
RECURSIVE WalkFacets(_, _)
WalkFacets(lists, facets) ==
  IF facets = <<>> THEN lists
  ELSE WalkFacets(WalkFeatures(lists, Head(facets)), Tail(facets))

\* The body of the try block for one raw record: Some(row), or None when
\* an exception is raised (value.get on a non-mapping, fromisoformat on a
\* text it cannot parse).
ParseOne(post) ==
  LET value == IF post.value.kind = "absent"
                 THEN Doc(None, None, None, None, None)
                 ELSE post.value
      created_at == Get(value.createdAt, EmptyText)
      parsed == FromIsoFormat(ReplaceZ(created_at))
      timestamp == IF created_at.kind # "empty" THEN parsed ELSE None
      text == Get(value.text, <<>>)
      lists == WalkFacets([mentions |-> <<>>, hashtags |-> <<>>, links |-> <<>>],
                          Get(value.facets, <<>>))
      embed == Get(value.embed, "")
      reply == Get(value.reply, FALSE)
  IN  IF value.kind = "scalar" THEN None
      ELSE IF created_at.kind # "empty" /\ parsed = None THEN None
      ELSE Some([uri |-> post.uri,
                 cid |-> post.cid,
                 text |-> text,
                 created_at |-> timestamp,
                 char_count |-> Len(text),
                 word_count |-> WordCount(text),
                 mentions |-> lists.mentions,
                 hashtags |-> lists.hashtags,
                 links |-> lists.links,
                 mention_count |-> Len(lists.mentions),
                 hashtag_count |-> Len(lists.hashtags),
                 link_count |-> Len(lists.links),
                 has_image |-> (embed = ImagesType),
                 has_external |-> (embed = ExternalType),
                 is_reply |-> reply,
                 hour |-> IF timestamp # None THEN Some(timestamp[1].h) ELSE None,
                 day_of_week |-> IF timestamp # None THEN Some(Weekday(timestamp[1])) ELSE None,
                 date |-> IF timestamp # None THEN Some(DateOf(timestamp[1])) ELSE None])

\* A mutation of ParseLoop: the except clause leaves the loop instead of
\* going on with the next record.
RECURSIVE ParseLoopBreak(_)
ParseLoopBreak(raw) ==
  IF raw = <<>> THEN <<>>
  ELSE IF ParseOne(Head(raw)) = None THEN <<>>
       ELSE ParseOne(Head(raw)) \o ParseLoopBreak(Tail(raw))

\* The for loop of parse_posts: the rows of the records that parse, in
\* order; a record that raises is skipped.
RECURSIVE ParseLoop(_)
ParseLoop(raw) ==
  IF raw = <<>> THEN <<>>
  ELSE ParseOne(Head(raw)) \o ParseLoop(Tail(raw))

Columns ==
  {"uri", "cid", "text", "created_at", "char_count", "word_count", "mentions",
   "hashtags", "links", "mention_count", "hashtag_count", "link_count",
   "has_image", "has_external", "is_reply", "hour", "day_of_week", "date"}

\* pd.DataFrame(parsed_posts): the columns are the keys of the rows, so a
\* frame built from no rows has no columns.
DataFrame(rows) ==
  [rows |-> rows, columns |-> IF rows = <<>> THEN {} ELSE Columns]

\* parse_posts(raw_posts)
ParsePosts(raw) == DataFrame(ParseLoop(raw))

NoFrame == [rows |-> <<>>, columns |-> {"unset"}]

\* ----------------------------------------------------------- analyze_posts
\* The number of (tag, count) pairs Counter.most_common is asked for.
TopN == 10

\* df.empty: no rows, or no columns.
Empty(frame) == frame.rows = <<>> \/ frame.columns = {}

\* The order of two timestamps.
TsKey(ts) == ((ts.y * 12 + ts.mo) * 31 + ts.d) * 24 + ts.h

\* The non-null values of the created_at column.
Stamps(frame) ==
  {frame.rows[i].created_at[1] :
     i \in {j \in 1..Len(frame.rows) : frame.rows[j].created_at # None}}

\* Series.min() / Series.max() of created_at, nulls skipped; None stands for
\* the NaN pandas returns when every value is null.
SeriesMin(frame) ==
  IF Stamps(frame) = {} THEN None
  ELSE Some(CHOOSE t \in Stamps(frame) :
              \A u \in Stamps(frame) : TsKey(t) <= TsKey(u))
SeriesMax(frame) ==
  IF Stamps(frame) = {} THEN None
  ELSE Some(CHOOSE t \in Stamps(frame) :
              \A u \in Stamps(frame) : TsKey(t) >= TsKey(u))

\* strftime("%Y-%m-%d")
Strftime(ts) == <<ts.y, ts.mo, ts.d>>

\* Series.sum() of a column of numbers.
RECURSIVE SumSeq(_)
SumSeq(column) == IF column = <<>> THEN 0 ELSE Head(column) + SumSeq(Tail(column))
\* df[name] as a sequence, for the columns that are summed.
Column(rows, name) ==
  [i \in 1..Len(rows) |->
     CASE name = "char_count" -> rows[i].char_count
       [] name = "word_count" -> rows[i].word_count
       [] name = "is_reply" -> IF rows[i].is_reply THEN 1 ELSE 0
       [] name = "has_image" -> IF rows[i].has_image THEN 1 ELSE 0
       [] name = "has_external" -> IF rows[i].has_external THEN 1 ELSE 0]
SumOver(rows, name) == SumSeq(Column(rows, name))

\* The content block over a frame that has the columns. A mean is the pair
\* <<sum, count>>; None stands for NaN.
Content(frame) ==
  LET rows == frame.rows
      n == Len(rows)
      top == CHOOSE m \in {rows[i].char_count : i \in 1..n} :
               \A i \in 1..n : rows[i].char_count <= m
      idxmax == CHOOSE i \in 1..n :
                  /\ rows[i].char_count = top
                  /\ \A j \in 1..(i - 1) : rows[j].char_count < top
  IN  [avg_char_count |-> IF n = 0 THEN None ELSE Some(<<SumOver(rows, "char_count"), n>>),
       avg_word_count |-> IF n = 0 THEN None ELSE Some(<<SumOver(rows, "word_count"), n>>),
       longest_post |-> IF ~Empty(frame) THEN rows[idxmax].text ELSE <<>>,
       longest_post_chars |-> IF n = 0 THEN None ELSE Some(top),
       reply_percentage |-> IF ~Empty(frame)
                              THEN <<SumOver(rows, "is_reply") * 100, n>>
                              ELSE <<0, 1>>,
       posts_with_images |-> SumOver(rows, "has_image"),
       posts_with_links |-> SumOver(rows, "has_external")]

\* [tag for tags in df["hashtags"] for tag in tags]
RECURSIVE AllHashtags(_)
AllHashtags(rows) ==
  IF rows = <<>> THEN <<>> ELSE Head(rows).hashtags \o AllHashtags(Tail(rows))

CountOf(x, seq) == Cardinality({i \in 1..Len(seq) : seq[i] = x})

\* The keys of Counter(seq), in order of first insertion.
RECURSIVE CounterKeys(_, _)
CounterKeys(seq, seen) ==
  IF seq = <<>> THEN seen
  ELSE CounterKeys(Tail(seq),
                   IF \E i \in 1..Len(seen) : seen[i] = Head(seq)
                     THEN seen ELSE Append(seen, Head(seq)))

\* A stable sort of (key, count) pairs by count, largest first.
RECURSIVE InsertByCount(_, _)
InsertByCount(sorted, pair) ==
  IF sorted = <<>> THEN <<pair>>
  ELSE IF Head(sorted)[2] >= pair[2]
    THEN <<Head(sorted)>> \o InsertByCount(Tail(sorted), pair)
    ELSE <<pair>> \o sorted
RECURSIVE SortByCount(_, _)
SortByCount(pairs, acc) ==
  IF pairs = <<>> THEN acc
  ELSE SortByCount(Tail(pairs), InsertByCount(acc, Head(pairs)))

\* Counter(seq).most_common(n)
MostCommon(seq, n) ==
  LET keys == CounterKeys(seq, <<>>)
      pairs == [i \in 1..Len(keys) |-> <<keys[i], CountOf(keys[i], seq)>>]
      sorted == SortByCount(pairs, <<>>)
  IN  SubSeq(sorted, 1, IF Len(sorted) < n THEN Len(sorted) ELSE n)

Hashtags(frame) ==
  LET all == AllHashtags(frame.rows)
  IN  [total_used |-> Len(all),
       unique_hashtags |-> Cardinality({all[i] : i \in 1..Len(all)}),
       most_common |-> MostCommon(all, TopN)]

day_names ==
  <<"Monday", "Tuesday", "Wednesday", "Thursday", "Friday", "Saturday", "Sunday">>

\* df.groupby(column).size().to_dict() for an optional column: the rows with
\* a null key are left out.
GroupSize(column) ==
  LET present == {i \in 1..Len(column) : column[i] # None}
      keys == {column[i][1] : i \in present}
  IN  [k \in keys |-> Cardinality({i \in present : column[i][1] = k})]

\* The grouping keys: the hour and day_of_week columns, and the month
\* period of created_at.
Hours(rows) == [i \in 1..Len(rows) |-> rows[i].hour]
Days(rows) == [i \in 1..Len(rows) |-> rows[i].day_of_week]
Months(rows) ==
  [i \in 1..Len(rows) |->
     IF rows[i].created_at = None THEN None
     ELSE Some(<<rows[i].created_at[1].y, rows[i].created_at[1].mo>>)]

\* A column of integers that holds a null is a float column: its group keys
\* are floats, and a float is no list index.
FloatKeys(column) == \E i \in 1..Len(column) : column[i] = None

\* The posting-patterns block, for a frame with a non-null created_at.
PostingPatterns(frame) ==
  LET rows == frame.rows
      hourly_counts == GroupSize(Hours(rows))
      daily_counts == GroupSize(Days(rows))
      monthly_counts == GroupSize(Months(rows))
      best == CHOOSE c \in {hourly_counts[h] : h \in DOMAIN hourly_counts} :
                \A h \in DOMAIN hourly_counts : hourly_counts[h] <= c
  IN  [busiest_hour |-> CHOOSE h \in DOMAIN hourly_counts :
                          /\ hourly_counts[h] = best
                          /\ \A g \in DOMAIN hourly_counts :
                               hourly_counts[g] = best => h <= g,
       busiest_hour_count |-> best,
       posts_by_hour |-> hourly_counts,
       posts_by_day |-> [name \in {day_names[d + 1] : d \in DOMAIN daily_counts} |->
                           daily_counts[CHOOSE d \in DOMAIN daily_counts :
                                          day_names[d + 1] = name]],
       monthly_activity |-> monthly_counts]

NoReport ==
  [total_posts |-> 0, date_range |-> [earliest |-> None, latest |-> None],
   content |-> None, hashtags |-> None, posting_patterns |-> None]

Raised(error) == [raised |-> error, report |-> NoReport]
NoAnalysis == Raised("unset")

\* analyze_posts(df): the report, or the exception that ends the call.
\*  - min() of a created_at column of nulls is NaN, which has no strftime;
\*  - a frame without columns has no "char_count";
\*  - day_names[day] with a float day raises TypeError.
AnalyzePosts(frame) ==
  IF ~Empty(frame) /\ SeriesMin(frame) = None THEN Raised("AttributeError")
  ELSE IF "char_count" \notin frame.columns THEN Raised("KeyError")
  ELSE IF ~Empty(frame) /\ Stamps(frame) # {} /\ FloatKeys(Days(frame.rows))
    THEN Raised("TypeError")
  ELSE
    [raised |-> "none",
     report |->
       [total_posts |-> Len(frame.rows),
        date_range |->
          [earliest |-> IF ~Empty(frame) THEN Some(Strftime(SeriesMin(frame)[1])) ELSE None,
           latest |-> IF ~Empty(frame) THEN Some(Strftime(SeriesMax(frame)[1])) ELSE None],
        content |-> Some(Content(frame)),
        hashtags |-> Some(Hashtags(frame)),
        posting_patterns |->
          IF ~Empty(frame) /\ Stamps(frame) # {}
            THEN Some(PostingPatterns(frame)) ELSE None]]

VARIABLES
  access_jwt,     \* self.access_jwt: None or Some(session)
  refresh_jwt,    \* self.refresh_jwt
  did,            \* self.did
  authResult,     \* outcome of the last authenticate call
  pc,             \* position of the thread in fetch_posts
  limit,          \* the limit argument of the running fetch_posts call
  posts,          \* the local list posts
  cursor,         \* the local cursor
  total_fetched,  \* the local counter
  inflight,       \* the listing request awaiting its response, or None
  nrecords,       \* the number of records the server holds
  arrived,        \* every record received in this call, in arrival order
  cursors,        \* the cursor of every 200 response of this call (None: absent)
  requests,       \* the cursors of the requests issued in this call
  sleeps,         \* the number of rate-limiting pauses taken in this call
  serverOK,       \* every page of this call was served by the paging rule
  lastEvent,      \* how the last response of this call was handled
  raw_posts,      \* the batch of raw records handed to parse_posts
  df,             \* the DataFrame parse_posts returned
  analysis,       \* what analyze_posts returned or raised
  stage,          \* how far the normalize-and-aggregate pipeline has run
  mpc,            \* position of the thread in main ("off": main is not run)
  store,          \* the `value` of each record the server holds, in a run of main
  outputs         \* the files a run of main has written

fetchVars == <<pc, limit, posts, cursor, total_fetched, inflight, arrived, cursors,
               requests, sleeps, serverOK, lastEvent>>
sessionVars == <<access_jwt, refresh_jwt, did, authResult>>
vars == <<access_jwt, refresh_jwt, did, authResult, pc, limit, posts, cursor,
          total_fetched, inflight, nrecords, arrived, cursors, requests, sleeps,
          serverOK, lastEvent, raw_posts, df, analysis, stage, mpc, store,
          outputs>>
pipeVars == <<raw_posts, df, analysis, stage>>
mainVars == <<mpc, store, outputs>>

InFetch == pc \in {"request", "wait", "sleep"}

\* --------------------------------------------------------------- __init__
Init ==
  /\ access_jwt = None
  /\ refresh_jwt = None
  /\ did = None
  /\ authResult = "none"
  /\ pc = "idle"
  /\ limit = None
  /\ posts = <<>>
  /\ cursor = None
  /\ total_fetched = 0
  /\ inflight = None
  /\ nrecords \in 0..MaxRecords
  /\ arrived = <<>>
  /\ cursors = <<>>
  /\ requests = <<>>
  /\ sleeps = 0
  /\ serverOK = TRUE
  /\ lastEvent = "none"
  /\ raw_posts = <<>>
  /\ df = NoFrame
  /\ analysis = NoAnalysis
  /\ stage = "start"
  /\ mpc = "off"
  /\ store = <<>>
  /\ outputs = {}

\* ------------------------------------------------------------ authenticate
\* The session-creation responses: a 200 body with all three keys, an error
\* status (raise_for_status raises), a transport failure (requests.post
\* raises), or a 200 body that lacks one of the three keys.
AuthResponses ==
  {"ok", "http_error", "transport_error",
   "no_accessJwt", "no_refreshJwt", "no_did"}

\* authenticate(handle, password) against a server answering with `resp`
\* for session `s`. The three assignments run in order; a missing key raises
\* KeyError, which the handler for RequestException does not catch.
Authenticate(resp, s) ==
  /\ ~InFetch
  /\ CASE resp \in {"http_error", "transport_error"} ->
            /\ authResult' = "False"
            /\ UNCHANGED <<access_jwt, refresh_jwt, did>>
       [] resp = "no_accessJwt" ->
            /\ authResult' = "KeyError"
            /\ UNCHANGED <<access_jwt, refresh_jwt, did>>
       [] resp = "no_refreshJwt" ->
            /\ access_jwt' = Some(s)
            /\ authResult' = "KeyError"
            /\ UNCHANGED <<refresh_jwt, did>>
       [] resp = "no_did" ->
            /\ access_jwt' = Some(s)
            /\ refresh_jwt' = Some(s)
            /\ authResult' = "KeyError"
            /\ UNCHANGED did
       [] OTHER ->
            /\ access_jwt' = Some(s)
            /\ refresh_jwt' = Some(s)
            /\ did' = Some(s)
            /\ authResult' = "True"
  /\ UNCHANGED <<mainVars, pipeVars, fetchVars, nrecords>>

\* ------------------------------------------------------------- fetch_posts
\* Entry of fetch_posts(limit): the authentication check and the
\* initialisation of the locals.
FetchCall(l) ==
  /\ ~InFetch
  /\ limit' = l
  /\ posts' = <<>>
  /\ cursor' = None
  /\ total_fetched' = 0
  /\ inflight' = None
  /\ arrived' = <<>>
  /\ cursors' = <<>>
  /\ requests' = <<>>
  /\ sleeps' = 0
  /\ serverOK' = TRUE
  /\ lastEvent' = "none"
  /\ pc' = IF access_jwt = None THEN "raised" ELSE "request"
  /\ UNCHANGED <<mainVars, pipeVars, sessionVars, nrecords>>

\* The top of the loop: build params (repo = self.did, the cursor when it
\* is truthy) and issue the GET with the bearer token.
SendRequest ==
  /\ pc = "request"
  /\ inflight' = Some([repo |-> did, cursor |-> cursor, bearer |-> access_jwt])
  /\ requests' = Append(requests, cursor)
  /\ pc' = "wait"
  /\ UNCHANGED <<mainVars, pipeVars, sessionVars, limit, posts, cursor, total_fetched, nrecords,
                 arrived, cursors, sleeps, serverOK, lastEvent>>

\* The offset a cursor stands for: the server's cursors name the number of
\* records already served.
Offset(c) == IF c = None THEN 0 ELSE c[1]

\* The paging rule of a well-behaved server holding n records, asked at
\* offset o: a non-empty page while records remain, and no cursor only on
\* the page that ends the listing.
PageByRule(n, o, k, c) ==
  /\ (n - o = 0) => (k = 0 /\ c = None)
  /\ (n - o > 0) => (k >= 1 /\ (c = None => o + k = n))

\* A mutation of HandlePage: the cursor is looked at before the page is
\* added, so the page that ends the listing is lost.
HandlePageCursorFirst(batch, c) ==
  IF batch = <<>> \/ c = None
    THEN [posts |-> posts, total |-> total_fetched, cursor |-> cursor,
          pc |-> "returned", event |-> "nocursor"]
    ELSE LET p == posts \o batch
             t == total_fetched + Len(batch)
         IN  IF Truthy(limit) /\ t >= limit[1]
               THEN [posts |-> SubSeq(p, 1, limit[1]), total |-> t,
                     cursor |-> c, pc |-> "returned", event |-> "limit"]
               ELSE [posts |-> p, total |-> t, cursor |-> c,
                     pc |-> "sleep", event |-> "more"]

\* A mutation of HandlePage: the loop goes on to the next request without
\* the pause.
HandlePageNoPause(batch, c) ==
  IF batch = <<>>
    THEN [posts |-> posts, total |-> total_fetched, cursor |-> cursor,
          pc |-> "returned", event |-> "empty"]
    ELSE LET p == posts \o batch
             t == total_fetched + Len(batch)
         IN  IF c = None
               THEN [posts |-> p, total |-> t, cursor |-> c,
                     pc |-> "returned", event |-> "nocursor"]
               ELSE IF Truthy(limit) /\ t >= limit[1]
                 THEN [posts |-> SubSeq(p, 1, limit[1]), total |-> t,
                       cursor |-> c, pc |-> "returned", event |-> "limit"]
                 ELSE [posts |-> p, total |-> t, cursor |-> c,
                       pc |-> "request", event |-> "more"]

\* The body of the try block for a 200 response carrying `batch` and the
\* cursor `c`: returns the new locals and where the loop goes.
HandlePage(batch, c) ==
  IF batch = <<>>
    THEN [posts |-> posts, total |-> total_fetched, cursor |-> cursor,
          pc |-> "returned", event |-> "empty"]
    ELSE LET p == posts \o batch
             t == total_fetched + Len(batch)
         IN  IF c = None
               THEN [posts |-> p, total |-> t, cursor |-> c,
                     pc |-> "returned", event |-> "nocursor"]
               ELSE IF Truthy(limit) /\ t >= limit[1]
                 THEN [posts |-> SubSeq(p, 1, limit[1]), total |-> t,
                       cursor |-> c, pc |-> "returned", event |-> "limit"]
                 ELSE [posts |-> p, total |-> t, cursor |-> c,
                       pc |-> "sleep", event |-> "more"]

\* A 200 response arrives: k records from the requested offset, with a
\* cursor naming the next offset when `more` holds and without one otherwise.
RecvPage(k, more) ==
  /\ pc = "wait"
  /\ LET o == Offset(inflight[1].cursor)
         batch == Range(o + 1, o + k)
         c == IF more THEN Some(o + k) ELSE None
         r == HandlePage(batch, c)
     IN  /\ k <= nrecords - o
         /\ posts' = r.posts
         /\ total_fetched' = r.total
         /\ cursor' = r.cursor
         /\ pc' = r.pc
         /\ lastEvent' = r.event
         /\ arrived' = Append(arrived, batch)
         /\ cursors' = Append(cursors, c)
         /\ serverOK' = (serverOK /\ PageByRule(nrecords, o, k, c))
  /\ inflight' = None
  /\ UNCHANGED <<mainVars, pipeVars, sessionVars, limit, nrecords, requests, sleeps>>

\* A mutation of HandleError: the records gathered so far are dropped.
HandleErrorDropPosts ==
  [posts |-> <<>>, pc |-> "returned", event |-> "error"]

\* What the except clause leaves: the loop is left, the locals are kept.
HandleError ==
  [posts |-> posts, pc |-> "returned", event |-> "error"]

\* The request fails with a RequestException (transport failure or an error
\* status raised by raise_for_status).
RecvError ==
  /\ pc = "wait"
  /\ posts' = HandleError.posts
  /\ pc' = HandleError.pc
  /\ lastEvent' = HandleError.event
  /\ serverOK' = FALSE
  /\ inflight' = None
  /\ UNCHANGED <<mainVars, pipeVars, sessionVars, limit, cursor, total_fetched, nrecords, arrived, cursors,
                 requests, sleeps>>

\* time.sleep(0.1), then the next iteration.
Sleep ==
  /\ pc = "sleep"
  /\ sleeps' = sleeps + 1
  /\ pc' = "request"
  /\ UNCHANGED <<mainVars, pipeVars, sessionVars, limit, posts, cursor, total_fetched, inflight,
                 nrecords, arrived, cursors, requests, serverOK, lastEvent>>

Limits == {None} \cup {Some(n) : n \in 0..MaxLimit}

Next ==
  \/ \E resp \in AuthResponses, s \in Sessions : Authenticate(resp, s)
  \/ \E l \in Limits : FetchCall(l)
  \/ SendRequest
  \/ \E k \in 0..MaxPage, more \in BOOLEAN : RecvPage(k, more)
  \/ RecvError
  \/ Sleep

Spec == Init /\ [][Next]_vars

\* Inside fetch_posts the single thread runs on: a request is sent, the
\* blocking call returns with a response or an error, the pause ends.
FetchStep ==
  \/ SendRequest
  \/ \E k \in 0..MaxPage, more \in BOOLEAN : RecvPage(k, more)
  \/ RecvError
  \/ Sleep

FairSpec == Spec /\ WF_vars(FetchStep)

\* ------------------------------------------- parse_posts and analyze_posts
\* The facets of the modelled records.
FacetsMixed ==
  << <<Feature(MentionType, "x"), Feature(TagType, "a")>>,
     <<Feature(LinkType, "u"), Feature("app.bsky.richtext.facet#other", "o"),
       Feature(TagType, "b")>> >>
FacetsTags ==
  << <<Feature(TagType, "a")>>,
     <<Feature(TagType, "a"), Feature(MentionType, "y")>> >>
FacetsLinks ==
  << <<Feature("app.bsky.richtext.facet#other", "o")>>,
     <<Feature(LinkType, "u"), Feature(LinkType, "v")>> >>

\* The `value` fields a raw record is drawn with: missing, not a mapping, a
\* mapping without keys, and mappings that vary the timestamp (absent,
\* empty, no timestamp, month out of range, valid with either suffix), the
\* text (empty, blank, words), the facets, the embed and the reply.
RawValues ==
  {AbsentValue,
   ScalarValue,
   Doc(None, None, None, None, None),
   Doc(Some(EmptyText), Some(<<>>), Some(<<>>), None, Some(FALSE)),
   Doc(Some(JunkText), Some(<<"a">>), None, None, None),
   Doc(Some(IsoText(2024, 13, 1, 0, TRUE)), Some(<<"a">>), Some(FacetsMixed),
       None, None),
   Doc(Some(IsoText(2024, 1, 15, 9, TRUE)), Some(<<"a", " ", "b">>),
       Some(FacetsMixed), Some(ImagesType), Some(TRUE)),
   Doc(Some(IsoText(2024, 3, 2, 17, FALSE)), Some(<<" ">>), Some(FacetsTags),
       Some(ExternalType), None),
   Doc(Some(IsoText(2024, 1, 15, 23, TRUE)), Some(<<" ", "a", " ", " ", "b">>),
       Some(<<>>), Some("app.bsky.embed.record"), Some(FALSE)),
   Doc(None, Some(<<"a", "b">>), Some(FacetsLinks), None, None)}

\* A batch of raw records; each record's uri and cid name its position.
PipeInit ==
  /\ access_jwt = None
  /\ refresh_jwt = None
  /\ did = None
  /\ authResult = "none"
  /\ pc = "idle"
  /\ limit = None
  /\ posts = <<>>
  /\ cursor = None
  /\ total_fetched = 0
  /\ inflight = None
  /\ nrecords = 0
  /\ arrived = <<>>
  /\ cursors = <<>>
  /\ requests = <<>>
  /\ sleeps = 0
  /\ serverOK = TRUE
  /\ lastEvent = "none"
  /\ \E n \in 0..MaxBatch : \E v \in [1..n -> RawValues] :
       raw_posts = [i \in 1..n |-> [uri |-> i, cid |-> <<"cid", i>>, value |-> v[i]]]
  /\ df = NoFrame
  /\ analysis = NoAnalysis
  /\ stage = "start"
  /\ mpc = "off"
  /\ store = <<>>
  /\ outputs = {}

\* df = analyzer.parse_posts(raw_posts)
ParsePostsCall ==
  /\ stage = "start"
  /\ df' = ParsePosts(raw_posts)
  /\ stage' = "parsed"
  /\ UNCHANGED <<mainVars, sessionVars, fetchVars, nrecords, raw_posts, analysis>>

\* analysis = analyzer.analyze_posts(df)
AnalyzePostsCall ==
  /\ stage = "parsed"
  /\ analysis' = AnalyzePosts(df)
  /\ stage' = "analyzed"
  /\ UNCHANGED <<mainVars, sessionVars, fetchVars, nrecords, raw_posts, df>>

PipeNext == ParsePostsCall \/ AnalyzePostsCall

PipeSpec == PipeInit /\ [][PipeNext]_vars

\* -------------------------------------------------------------------- main
\* The `value` fields of the records the server holds in a run of main: a
\* post with a timestamp, a post without createdAt, and a value that is no
\* mapping.
MainValues ==
  {Doc(Some(IsoText(2024, 1, 15, 9, TRUE)), Some(<<"a", " ", "b">>),
       Some(FacetsMixed), Some(ImagesType), Some(TRUE)),
   Doc(None, Some(<<"a", "b">>), Some(FacetsLinks), None, None),
   ScalarValue}

ChartFiles == {"posting_frequency.png", "hourly_pattern.png",
               "daily_pattern.png", "char_count_distribution.png"}
SavedFiles == {"bluesky_analysis_posts.csv", "bluesky_analysis_analysis.json"}

\* main() starts with a fresh analyzer, against a server holding the store.
MainInit ==
  /\ access_jwt = None
  /\ refresh_jwt = None
  /\ did = None
  /\ authResult = "none"
  /\ pc = "idle"
  /\ limit = None
  /\ posts = <<>>
  /\ cursor = None
  /\ total_fetched = 0
  /\ inflight = None
  /\ nrecords \in 0..MaxStore
  /\ store \in [1..nrecords -> MainValues]
  /\ arrived = <<>>
  /\ cursors = <<>>
  /\ requests = <<>>
  /\ sleeps = 0
  /\ serverOK = TRUE
  /\ lastEvent = "none"
  /\ raw_posts = <<>>
  /\ df = NoFrame
  /\ analysis = NoAnalysis
  /\ stage = "start"
  /\ mpc = "start"
  /\ outputs = {}

\* analyzer.authenticate(handle, password)
MainAuthenticate ==
  /\ mpc = "start"
  /\ authResult = "none"
  /\ \E resp \in AuthResponses, s \in Sessions : Authenticate(resp, s)

\* Where main goes with the outcome of authenticate: on with True, return
\* with False; a KeyError leaves main, which calls authenticate outside try.
AfterAuthenticate(result) ==
  CASE result = "True" -> "limit"
    [] result = "False" -> "auth_failed"
    [] OTHER -> "crashed"

\* if not analyzer.authenticate(...): return
MainAuthCheck ==
  /\ mpc = "start"
  /\ authResult # "none"
  /\ mpc' = AfterAuthenticate(authResult)
  /\ UNCHANGED <<store, outputs, pipeVars, sessionVars, fetchVars, nrecords>>

\* raw_posts = analyzer.fetch_posts(limit=limit): the call, with the limit
\* read from the prompt.
MainFetchCall ==
  /\ mpc = "limit"
  /\ pc = "idle"
  /\ \E l \in Limits : FetchCall(l)

\* The steps of the fetch loop inside that call.
MainFetchStep ==
  /\ mpc = "limit"
  /\ FetchStep

\* A mutation of FetchHasReturned: the list is taken while the loop pauses.
FetchHasReturnedEarly == pc \in {"returned", "raised", "sleep"}

\* fetch_posts has left its loop: it returned posts or raised.
FetchHasReturned == pc \in {"returned", "raised"}

\* The return of fetch_posts into main: an exception goes to the except
\* clause, an empty list ends main ("No posts found"), anything else is
\* handed to parse_posts.
MainFetchReturn ==
  /\ mpc = "limit"
  /\ FetchHasReturned
  /\ raw_posts' = [i \in 1..Len(posts) |->
                     [uri |-> posts[i], cid |-> <<"cid", posts[i]>>,
                      value |-> store[posts[i]]]]
  /\ mpc' = IF pc = "raised" THEN "error"
            ELSE IF posts = <<>> THEN "no_posts" ELSE "parse"
  /\ UNCHANGED <<store, outputs, df, analysis, stage, sessionVars, fetchVars,
                 nrecords>>

\* df = analyzer.parse_posts(raw_posts)
MainParse ==
  /\ mpc = "parse"
  /\ ParsePostsCall

\* analysis = analyzer.analyze_posts(df)
MainAnalyze ==
  /\ mpc = "parse"
  /\ AnalyzePostsCall

\* An exception of analyze_posts is caught by `except Exception`, which
\* ends main; otherwise main goes on to the charts.
MainAfterAnalyze ==
  /\ mpc = "parse"
  /\ stage = "analyzed"
  /\ mpc' = IF analysis.raised # "none" THEN "error" ELSE "visualize"
  /\ UNCHANGED <<store, outputs, pipeVars, sessionVars, fetchVars, nrecords>>

\* analyzer.create_visualizations(df), reached with a report, that is with a
\* frame whose rows all have a timestamp.
MainVisualize ==
  /\ mpc = "visualize"
  /\ outputs' = outputs \cup ChartFiles
  /\ mpc' = "save"
  /\ UNCHANGED <<store, pipeVars, sessionVars, fetchVars, nrecords>>

\* analyzer.save_results(df, analysis)
MainSave ==
  /\ mpc = "save"
  /\ outputs' = outputs \cup SavedFiles
  /\ mpc' = "summary"
  /\ UNCHANGED <<store, pipeVars, sessionVars, fetchVars, nrecords>>

\* analyzer.print_summary(analysis) and the end of main.
MainSummary ==
  /\ mpc = "summary"
  /\ mpc' = "done"
  /\ UNCHANGED <<store, outputs, pipeVars, sessionVars, fetchVars, nrecords>>

MainNext ==
  \/ MainAuthenticate
  \/ MainAuthCheck
  \/ MainFetchCall
  \/ MainFetchStep
  \/ MainFetchReturn
  \/ MainParse
  \/ MainAnalyze
  \/ MainAfterAnalyze
  \/ MainVisualize
  \/ MainSave
  \/ MainSummary

MainSpec == MainInit /\ [][MainNext]_vars

\* main has ended: it returned or an exception ended it.
MainEnded == mpc \in {"auth_failed", "crashed", "no_posts", "error", "done"}

\* ------------------------------------------------------------------ claims

\* C1: whenever the records accumulated by fetch_posts(limit = cap), cap >= 1,
\* reach the cap, the call returns exactly the first cap records in arrival
\* order, whether or not the page that reached the cap carried a cursor.
C1_CapTruncates ==
  (pc = "returned" /\ Truthy(limit) /\ Len(Concat(arrived)) >= limit[1])
    => posts = SubSeq(Concat(arrived), 1, limit[1])

\* C2: with no cap, against a server that serves its n records by the paging
\* rule and never errors, fetch_posts terminates and returns exactly the n
\* records in serving order.
C2_NoCapReturnsAll ==
  /\ [](pc = "returned" /\ limit = None /\ serverOK
          => posts = Range(1, nrecords))
  /\ ((InFetch /\ limit = None) ~> pc = "returned")

C2_Witness ==
  /\ pc = "returned" /\ limit = None /\ serverOK
  /\ Len(arrived) >= 2
  /\ nrecords >= 3
  /\ posts = Range(1, nrecords)

\* C3: when the request for page k fails with a RequestException,
\* fetch_posts does not raise and sends nothing more: it returns the
\* concatenation of pages 1..k-1 (empty when k = 1).
C3_ErrorKeepsPages ==
  lastEvent = "error" =>
    /\ pc = "returned"
    /\ inflight = None
    /\ Len(requests) = Len(arrived) + 1
    /\ posts = Concat(arrived)

C3_Witness ==
  /\ lastEvent = "error" /\ pc = "returned"
  /\ Len(arrived) >= 2
  /\ posts = Concat(arrived) /\ Len(posts) >= 2

\* C4: a listing request is in flight only if both the bearer token and the
\* account identifier are set; otherwise fetch_posts raises before sending.
C4_RequestNeedsTokenAndDid ==
  inflight # None => (inflight[1].bearer # None /\ inflight[1].repo # None)

\* The uris of the rows of the frame, in row order.
RowUris == [j \in 1..Len(df.rows) |-> df.rows[j].uri]
\* The positions 1..n without position k, in order.
Without(n, k) == [i \in 1..(n - 1) |-> IF i < k THEN i ELSE i + 1]
\* A createdAt that parse_posts turns into a timestamp or into null.
GoodStamp(c) == c = None \/ c[1].kind = "empty" \/ FromIsoFormat(ReplaceZ(c[1])) # None
\* A createdAt string that is no ISO-8601 timestamp.
BadStamp(c) == c # None /\ c[1].kind # "empty" /\
  (c[1].kind = "junk" \/ c[1].mo \notin 1..12 \/ c[1].d \notin 1..31)
WellFormed(post) == post.value.kind = "doc" /\ GoodStamp(post.value.createdAt)

\* C5 (as stated): in a batch where exactly one record is malformed, its
\* `value` missing or not a mapping, parse_posts yields one row for each other
\* record, in order, and none for the malformed one.
C5_OneMalformedSkipped ==
  stage # "start" =>
    \A k \in 1..Len(raw_posts) :
      (/\ raw_posts[k].value.kind \in {"absent", "scalar"}
       /\ \A i \in 1..Len(raw_posts) : i # k => WellFormed(raw_posts[i]))
        => RowUris = Without(Len(raw_posts), k)

\* C5 (amended): in a batch where exactly one record has a `value` that is
\* not a mapping and every other record is well formed or lacks `value`,
\* parse_posts yields one row for each other record, in order, and none for
\* that record; a record that lacks `value` yields a row with empty text and
\* a null timestamp.
C5_NonMappingSkipped ==
  stage # "start" =>
    /\ \A k \in 1..Len(raw_posts) :
         (/\ raw_posts[k].value.kind = "scalar"
          /\ \A i \in 1..Len(raw_posts) : i # k =>
               (WellFormed(raw_posts[i]) \/ raw_posts[i].value.kind = "absent"))
           => RowUris = Without(Len(raw_posts), k)
    /\ \A i \in 1..Len(raw_posts) :
         raw_posts[i].value.kind = "absent" =>
           \E j \in 1..Len(df.rows) :
             /\ df.rows[j].uri = i
             /\ df.rows[j].text = <<>>
             /\ df.rows[j].created_at = None

C5_Witness ==
  /\ stage = "parsed"
  /\ Len(raw_posts) = 3
  /\ raw_posts[2].value.kind = "scalar"
  /\ raw_posts[1].value.kind = "absent"
  /\ WellFormed(raw_posts[3])
  /\ RowUris = <<1, 3>>

\* C6: every record whose createdAt is absent or is a string that is no
\* ISO-8601 timestamp still gets a row, with created_at, hour, day_of_week
\* and date null.
C6_BadStampKeepsRow ==
  stage # "start" =>
    \A i \in 1..Len(raw_posts) :
      (/\ raw_posts[i].value.kind = "doc"
       /\ (raw_posts[i].value.createdAt = None \/ BadStamp(raw_posts[i].value.createdAt)))
        => \E j \in 1..Len(df.rows) :
             /\ df.rows[j].uri = i
             /\ df.rows[j].created_at = None
             /\ df.rows[j].hour = None
             /\ df.rows[j].day_of_week = None
             /\ df.rows[j].date = None

\* C7: in every row, char_count is the length of text, word_count is 0
\* exactly when text is empty or blank, and the three counts are the lengths
\* of mentions, hashtags and links.
C7_RowCounts ==
  stage # "start" =>
    \A j \in 1..Len(df.rows) :
      LET r == df.rows[j] IN
        /\ r.char_count = Len(r.text)
        /\ (r.word_count = 0) <=> (\A i \in 1..Len(r.text) : r.text[i] = " ")
        /\ r.mention_count = Len(r.mentions)
        /\ r.hashtag_count = Len(r.hashtags)
        /\ r.link_count = Len(r.links)

C7_Witness ==
  /\ stage = "parsed"
  /\ \E j \in 1..Len(df.rows) :
       df.rows[j].text = <<" ">> /\ df.rows[j].word_count = 0
  /\ \E j \in 1..Len(df.rows) :
       df.rows[j].char_count = 5 /\ df.rows[j].word_count = 2
  /\ \E j \in 1..Len(df.rows) : df.rows[j].hashtag_count = 2

\* The features of one type among `features`, in order.
OfType(features, type) == SelectSeq(features, LAMBDA f : f.type = type)

\* C8: every feature goes to exactly one of mentions / hashtags / links by
\* its $type (its did, tag or uri), features of another type are ignored,
\* each list keeps the order of encounter across facets, and the three
\* counts add up to the number of recognised features.
C8_FeaturesClassified ==
  stage # "start" =>
    \A j \in 1..Len(df.rows) :
      LET r == df.rows[j]
          features == Concat(Get(raw_posts[r.uri].value.facets, <<>>))
          known == SelectSeq(features,
                     LAMBDA f : f.type \in {MentionType, TagType, LinkType})
          ms == OfType(features, MentionType)
          ts == OfType(features, TagType)
          ls == OfType(features, LinkType)
      IN  /\ r.mentions = [i \in 1..Len(ms) |-> ms[i].did]
          /\ r.hashtags = [i \in 1..Len(ts) |-> ts[i].tag]
          /\ r.links = [i \in 1..Len(ls) |-> ls[i].uri]
          /\ r.mention_count + r.hashtag_count + r.link_count = Len(known)

C8_Witness ==
  /\ stage = "parsed"
  /\ \E j \in 1..Len(df.rows) :
       /\ df.rows[j].mentions = << <<"did", "x">> >>
       /\ df.rows[j].hashtags = << <<"tag", "a">>, <<"tag", "b">> >>
       /\ df.rows[j].links = << <<"uri", "u">> >>
       /\ Len(Concat(raw_posts[df.rows[j].uri].value.facets[1])) = 5

\* C9: when no row was normalized, analyze_posts does not raise and reports
\* total_posts 0, a null date range, reply_percentage 0, no hashtags and no
\* posting_patterns block.
C9_EmptyTableReport ==
  (stage = "analyzed" /\ df.rows = <<>>) =>
    /\ analysis.raised = "none"
    /\ analysis.report.total_posts = 0
    /\ analysis.report.date_range.earliest = None
    /\ analysis.report.date_range.latest = None
    /\ analysis.report.content[1].reply_percentage[1] = 0
    /\ analysis.report.hashtags[1].total_used = 0
    /\ analysis.report.hashtags[1].unique_hashtags = 0
    /\ analysis.report.hashtags[1].most_common = <<>>
    /\ analysis.report.posting_patterns = None

\* The dates of the rows with a timestamp, ordered as year, month, day.
RowDates == {df.rows[j].date[1] : j \in {i \in 1..Len(df.rows) : df.rows[i].date # None}}
DateLeq(a, b) ==
  \/ a[1] < b[1]
  \/ a[1] = b[1] /\ a[2] < b[2]
  \/ a[1] = b[1] /\ a[2] = b[2] /\ a[3] <= b[3]

\* C10: for a non-empty table whose created_at are all null, analyze_posts
\* returns a report with a null date range and no posting_patterns block;
\* with a non-null created_at, earliest and latest are the least and the
\* greatest date of the non-null timestamps.
C10_DateRange ==
  (stage = "analyzed" /\ df.rows # <<>>) =>
    /\ analysis.raised = "none"
    /\ RowDates = {} =>
         /\ analysis.report.date_range.earliest = None
         /\ analysis.report.date_range.latest = None
         /\ analysis.report.posting_patterns = None
    /\ RowDates # {} =>
         /\ analysis.report.date_range.earliest # None
         /\ analysis.report.date_range.latest # None
         /\ analysis.report.date_range.earliest[1] \in RowDates
         /\ analysis.report.date_range.latest[1] \in RowDates
         /\ \A x \in RowDates :
              /\ DateLeq(analysis.report.date_range.earliest[1], x)
              /\ DateLeq(x, analysis.report.date_range.latest[1])

\* The sum of the counts of a key -> count mapping.
RECURSIVE SumCounts(_)
SumCounts(f) ==
  IF DOMAIN f = {} THEN 0
  ELSE LET k == CHOOSE x \in DOMAIN f : TRUE
       IN  f[k] + SumCounts([x \in DOMAIN f \ {k} |-> f[x]])

\* The number of rows of the frame with a timestamp.
Stamped == Cardinality({j \in 1..Len(df.rows) : df.rows[j].created_at # None})

\* C11: for a table that mixes rows with and without created_at,
\* analyze_posts reports total_posts = the number of rows, and the counts of
\* posts_by_hour, of posts_by_day and of monthly_activity each add up to the
\* number of rows with a created_at.
C11_MixedTableCounts ==
  (stage = "analyzed" /\ Stamped > 0 /\ Stamped < Len(df.rows)) =>
    /\ analysis.raised = "none"
    /\ analysis.report.total_posts = Len(df.rows)
    /\ analysis.report.posting_patterns # None
    /\ SumCounts(analysis.report.posting_patterns[1].posts_by_hour) = Stamped
    /\ SumCounts(analysis.report.posting_patterns[1].posts_by_day) = Stamped
    /\ SumCounts(analysis.report.posting_patterns[1].monthly_activity) = Stamped

\* The hashtags of the rows of the frame, flattened in row order.
FlatTags == Concat([j \in 1..Len(df.rows) |-> df.rows[j].hashtags])
FirstAt(tag) == CHOOSE i \in 1..Len(FlatTags) :
                  FlatTags[i] = tag /\ \A j \in 1..(i - 1) : FlatTags[j] # tag
Freq(tag) == Cardinality({i \in 1..Len(FlatTags) : FlatTags[i] = tag})
DistinctTags == {FlatTags[i] : i \in 1..Len(FlatTags)}

\* What C12 says of a hashtag block h.
HashtagBlockOK(h) ==
  LET mc == h.most_common
      want == IF Cardinality(DistinctTags) < 10 THEN Cardinality(DistinctTags) ELSE 10
  IN  /\ h.total_used = Len(FlatTags)
      /\ h.unique_hashtags = Cardinality(DistinctTags)
      /\ h.unique_hashtags <= h.total_used
      /\ Len(mc) = want
      /\ \A i \in 1..Len(mc) : mc[i][1] \in DistinctTags /\ mc[i][2] = Freq(mc[i][1])
      /\ \A i, j \in 1..Len(mc) : i < j =>
           \/ mc[i][2] > mc[j][2]
           \/ mc[i][2] = mc[j][2] /\ FirstAt(mc[i][1]) < FirstAt(mc[j][1])
      /\ SumSeq([i \in 1..Len(mc) |-> mc[i][2]]) <= h.total_used

\* C12: for every non-empty table analyze_posts returns a hashtag block with
\* total_used the number of hashtag occurrences, unique_hashtags the number of
\* distinct tags, and most_common the min(10, unique) most frequent tags with
\* their frequencies, largest first, ties in order of first appearance.
C12_HashtagBlock ==
  (stage = "analyzed" /\ df.rows # <<>>) =>
    /\ analysis.raised = "none"
    /\ HashtagBlockOK(analysis.report.hashtags[1])

\* C13: in a run of main(), every run that authenticated successfully
\* reaches the save step whatever fetch_posts accumulated (the empty list
\* included, as after a transport error on the first request); only an
\* authentication failure lets main() end without the downstream steps.
C13_SavedUnlessAuthFailed ==
  (MainEnded /\ authResult = "True") =>
    /\ stage = "analyzed"
    /\ SavedFiles \subseteq outputs

\* C14: in a run of main(), after authenticate returned failure no listing
\* request is issued, parse and analyze never run and no file is written;
\* a listing request is issued only after a successful authenticate,
\* parse_posts runs only after fetch_posts returned, and analyze_posts only
\* after parse_posts returned.
C14_AuthGatesPipeline ==
  /\ authResult = "False" =>
       /\ requests = <<>>
       /\ inflight = None
       /\ stage = "start"
       /\ df = NoFrame
       /\ analysis = NoAnalysis
       /\ outputs = {}
  /\ (requests # <<>> \/ inflight # None) => authResult = "True"
  /\ stage # "start" => (pc = "returned" /\ inflight = None)
  /\ df # NoFrame => stage \in {"parsed", "analyzed"}
  /\ analysis # NoAnalysis => (df # NoFrame /\ stage = "analyzed")
  /\ outputs # {} => (analysis # NoAnalysis /\ authResult = "True")

\* main() ended on a failed authenticate.
C14_Witness == mpc = "auth_failed" /\ authResult = "False"

\* The loop condition after the k-th 200 response of the call: the page was
\* not empty, it carried a cursor, and the cap, if one was given, is not
\* reached by the records accumulated up to that page.
ContinueAfter(k) ==
  /\ arrived[k] # <<>>
  /\ cursors[k] # None
  /\ ~(limit # None /\ Len(Concat(SubSeq(arrived, 1, k))) >= limit[1])

\* C15: within one fetch_posts call request k+1 is issued if and only if
\* response k was a success with a non-empty page and a cursor and the cap,
\* if set, was not reached; the first request carries no cursor and each
\* later request carries the cursor of the response before it.
C15_NextRequestIffContinue ==
  (pc \in {"request", "wait", "sleep", "returned"}) =>
    /\ Len(requests) <= Len(arrived) + 1
    /\ requests # <<>> => requests[1] = None
    /\ \A k \in 1..Len(arrived) :
         /\ k < Len(requests) =>
              (ContinueAfter(k) /\ requests[k + 1] = cursors[k])
         /\ (pc = "returned" /\ ContinueAfter(k)) => k < Len(requests)

\* C16: within one fetch_posts call exactly one pause lies between any two
\* consecutive page requests, and a request is issued only when the response
\* or error of every earlier request has been handled, so at most one
\* request is outstanding.
C16_PauseBetweenRequests ==
  (pc \in {"request", "wait", "sleep", "returned"}) =>
    /\ pc = "request" => (sleeps = Len(requests) /\ inflight = None)
    /\ pc # "request" => sleeps = Len(requests) - 1
    /\ (inflight # None) <=> (pc = "wait")
    /\ Len(requests) = Len(arrived) +
         (IF inflight # None \/ lastEvent = "error" THEN 1 ELSE 0)

\* The third request of a call is outstanding, after two pauses.
C16_Witness ==
  /\ pc = "wait"
  /\ inflight # None
  /\ Len(requests) = 3
  /\ sleeps = 2

\* C17: after any sequence of authenticate calls with any responses the three
\* session fields access_jwt, refresh_jwt and did are all unset or all set
\* from one and the same session response (a call that does not succeed
\* changes none of them).
C17_SessionAtomic ==
  /\ access_jwt = refresh_jwt
  /\ refresh_jwt = did

====
